---------------------------- MODULE Spec2Model ----------------------------
(***************************************************************************)
(* A model of the programs under concepts/.                                 *)
(*                                                                         *)
(* net/http/main.go: the handlers and middleware the file defines          *)
(* (NewHandler, RequestTimer, TerribleSecurityProvider, timeoutHandler,    *)
(* the routers built by newServeMux, parentChildMux and muxWithMiddleware, *)
(* the alice chain), run against the net/http ResponseWriter, ServeMux,    *)
(* StripPrefix and TimeoutHandler they are written against (go1.17, the    *)
(* release the file links to), and the functions that start the server.    *)
(* One request is served per behaviour (Spec).                             *)
(*                                                                         *)
(* json/json.go: marshal, a strict encoding/json decode into testJSON      *)
(* (SpecMarshal).  json/json_test.go: countLetter over an io.Reader        *)
(* (SpecCountLetter).  context/main.go: Middleware and the contexts of     *)
(* package context it hands on (SpecContext).                              *)
(***************************************************************************)
EXTENDS Integers, Sequences, FiniteSets, TLC

VARIABLES
    root,       \* the http.Handler the server was constructed with
    req,        \* the request being served: [method, host, path, secret]
    phase,      \* "idle" | "timeout" | "finished" | "aborted"
    w,          \* the server's http.ResponseWriter for this request
    log,        \* records written through the log package
    trace,      \* entry/exit events of the chain's elements, in order
    tw,         \* TimeoutHandler's timeoutWriter
    ctxErr,     \* Err() of the context TimeoutHandler derives
    reqCtxErr,  \* Err() of the incoming request's context
    done,       \* TimeoutHandler's done channel is closed
    panicChan,  \* TimeoutHandler's panicChan holds a value
    ipc,        \* inner goroutine: index of its next sink operation, 0 = returned
    innerLog,   \* what the inner goroutine's sink operations returned
    branch,     \* the select case TimeoutHandler took ("" before)
    atDeadline, \* what the deadline found when it fired
    starter,    \* the function that started the server
    serveErr,   \* what s.ListenAndServe() returned ("" while it is serving)
    outcome,    \* how the starting function ended: [returned, panic]
    tj,         \* json: the testJSON value marshal decodes into
    marshalLog, \* json: the calls of marshal so far: [in, was, now, err]
    ctxs,       \* context: the contexts derived so far, by index
    handoff,    \* context: what a middleware handed its inner handler
    reader,     \* countLetter: the io.Reader, [script, pos]
    cl          \* countLetter: its activation, [pc, buf, out, reads, ret]

vars == << root, req, phase, w, log, trace, tw, ctxErr, reqCtxErr, done,
           panicChan, ipc, innerLog, branch, atDeadline, starter, serveErr, outcome,
           tj, marshalLog, ctxs, handoff, reader, cl >>

\* the state of the other packages' programs (concepts/json, concepts/context)
PackageVars == << tj, marshalLog, ctxs, handoff, reader, cl >>

\* what serving a request leaves alone
Aside == << starter, serveErr, outcome, PackageVars >>

(***************************************************************************)
(* Bounds and program constants                                            *)
(***************************************************************************)
MaxProgramLen == 3
MaxChainLen == 2

StatusOK == 200
StatusAccepted == 202
StatusMovedPermanently == 301
StatusUnauthorized == 401
StatusNotFound == 404
StatusServiceUnavailable == 503

securityMsg == "You didn't give the secret password\n"

(***************************************************************************)
(* strings                                                                 *)
(***************************************************************************)
HasPrefix(s, p) == Len(p) <= Len(s) /\ SubSeq(s, 1, Len(p)) = p

HasSuffix(s, p) == Len(p) <= Len(s) /\ SubSeq(s, Len(s) - Len(p) + 1, Len(s)) = p

TrimPrefix(s, p) == IF HasPrefix(s, p) THEN SubSeq(s, Len(p) + 1, Len(s)) ELSE s

TrimSuffix(s, p) == IF HasSuffix(s, p) THEN SubSeq(s, 1, Len(s) - Len(p)) ELSE s

CharAt(s, i) == SubSeq(s, i, i)


RECURSIVE Count(_, _, _)
Count(s, c, i) ==
    IF i > Len(s) THEN 0
    ELSE (IF CharAt(s, i) = c THEN 1 ELSE 0) + Count(s, c, i + 1)

RECURSIVE IndexFrom(_, _, _)
IndexFrom(s, c, i) ==     \* first position >= i of character c in s, 0 if none
    IF i > Len(s) THEN 0
    ELSE IF CharAt(s, i) = c THEN i ELSE IndexFrom(s, c, i + 1)

RECURSIVE Segments(_, _, _)
Segments(s, i, cur) ==    \* strings.Split(s, "/") from position i on
    IF i > Len(s) THEN << cur >>
    ELSE IF CharAt(s, i) = "/" THEN << cur >> \o Segments(s, i + 1, "")
    ELSE Segments(s, i + 1, cur \o CharAt(s, i))

RECURSIVE CleanSegments(_, _, _)
CleanSegments(segs, i, out) ==   \* path.Clean on a rooted path, by element
    IF i > Len(segs) THEN out
    ELSE IF segs[i] = "" \/ segs[i] = "." THEN CleanSegments(segs, i + 1, out)
    ELSE IF segs[i] = ".."
         THEN CleanSegments(segs, i + 1,
                            IF Len(out) = 0 THEN out ELSE SubSeq(out, 1, Len(out) - 1))
    ELSE CleanSegments(segs, i + 1, Append(out, segs[i]))

RECURSIVE Join(_, _)
Join(segs, i) ==
    IF i > Len(segs) THEN ""
    ELSE "/" \o segs[i] \o Join(segs, i + 1)

PathClean(p) ==       \* path.Clean(p) for p beginning with "/"
    LET out == CleanSegments(Segments(p, 1, ""), 1, << >>)
    IN  IF Len(out) = 0 THEN "/" ELSE Join(out, 1)

cleanPath(p0) ==
    IF p0 = "" THEN "/"
    ELSE LET p  == IF CharAt(p0, 1) # "/" THEN "/" \o p0 ELSE p0
             np == PathClean(p)
         IN  IF CharAt(p, Len(p)) = "/" /\ np # "/"
             THEN (IF Len(p) = Len(np) + 1 /\ HasPrefix(p, np) THEN p ELSE np \o "/")
             ELSE np

stripHostPort(h) ==
    IF Count(h, ":", 1) = 0 THEN h
    ELSE IF Count(h, ":", 1) > 1 THEN h      \* SplitHostPort: too many colons
    ELSE SubSeq(h, 1, IndexFrom(h, ":", 1) - 1)

(***************************************************************************)
(* http.ResponseWriter as the server implements it (http.response).        *)
(* A serving state st is [w, log, trace, panicked]: the writer, the log,   *)
(* the recorded events, and whether a panic is unwinding the call chain.   *)
(***************************************************************************)
NewResponse ==
    [ wroteHeader   |-> FALSE,
      status        |-> 0,
      handlerHeader |-> {},      \* the map Header() returns: <<key, value>> pairs
      header        |-> {},      \* the headers that go out with the status line
      body          |-> "" ]

HeaderWith(h, k, v) == { kv \in h : kv[1] # k } \cup { << k, v >> }

HeaderHas(h, k) == \E kv \in h : kv[1] = k

bodyAllowedForStatus(status) ==
    ~ ( (status >= 100 /\ status <= 199) \/ status = 204 \/ status = 304 )

\* w.Header().Set(k, v): the map is the handler's to mutate at any time
HeaderSet(st, k, v) ==
    [st EXCEPT !.w.handlerHeader = HeaderWith(@, k, v)]

\* variant: every WriteHeader call overwrites the status (the last call wins)
WriteHeaderFlipped(st, code) ==
    [st EXCEPT !.w.wroteHeader = TRUE, !.w.status = code,
               !.w.header = st.w.handlerHeader]

\* w.WriteHeader(code): the first call fixes the status and snapshots the headers
WriteHeader(st, code) ==
    IF st.w.wroteHeader
    THEN [st EXCEPT !.log = Append(@, "http: superfluous response.WriteHeader call")]
    ELSE [st EXCEPT !.w.wroteHeader = TRUE, !.w.status = code,
                    !.w.header = st.w.handlerHeader]

\* variant: Write without the implicit WriteHeader(StatusOK)
WriteNoImplicitHeader(st, data) ==
    IF data = "" \/ ~ bodyAllowedForStatus(st.w.status) THEN st
    ELSE [st EXCEPT !.w.body = @ \o data]

\* w.Write(data): an implicit WriteHeader(StatusOK) first, then the body bytes
Write(st, data) ==
    LET st1 == IF ~ st.w.wroteHeader THEN WriteHeader(st, StatusOK) ELSE st
    IN  IF data = "" \/ ~ bodyAllowedForStatus(st1.w.status) THEN st1
        ELSE [st1 EXCEPT !.w.body = @ \o data]

Ev(who, ev, r) == [who |-> who, ev |-> ev, path |-> r.path]

Record(st, who, ev, r) == [st EXCEPT !.trace = Append(@, Ev(who, ev, r))]

(***************************************************************************)
(* Terminal handlers: an http.HandlerFunc is the sequence of operations    *)
(* its body performs on its ResponseWriter.                                *)
(***************************************************************************)
OpWriteHeader(c) == [op |-> "WriteHeader", code |-> c, data |-> ""]
OpWrite(d)       == [op |-> "Write", code |-> 0, data |-> d]
OpHeaderSet(k)   == [op |-> "Header.Set", code |-> 0, data |-> k]
OpPanic          == [op |-> "panic", code |-> 0, data |-> ""]

HandlerFunc(name, ops) == [kind |-> "HandlerFunc", name |-> name, ops |-> ops]

ApplyOp(st, o) ==
    CASE o.op = "WriteHeader" -> WriteHeader(st, o.code)
      [] o.op = "Write"       -> Write(st, o.data)
      [] o.op = "Header.Set"  -> HeaderSet(st, o.data, "1")
      [] o.op = "panic"       -> [st EXCEPT !.panicked = TRUE]

RECURSIVE RunOps(_, _, _)
RunOps(ops, i, st) ==
    IF i > Len(ops) \/ st.panicked THEN st
    ELSE RunOps(ops, i + 1, ApplyOp(st, ops[i]))

HandlerFuncServeHTTP(h, r, st) ==
    LET st1 == RunOps(h.ops, 1, Record(st, h.name, "call", r))
    IN  IF st1.panicked THEN st1 ELSE Record(st1, h.name, "return", r)

(***************************************************************************)
(* Handlers and middleware of main.go.  A handler is a record naming its   *)
(* kind and what it closes over; ServeHTTP runs one on a request.          *)
(***************************************************************************)
NewHandler == [kind |-> "NewHandler"]

RequestTimer(h) == [kind |-> "RequestTimer", h |-> h]

TerribleSecurityProvider(password, h) ==
    [kind |-> "TerribleSecurityProvider", password |-> password, h |-> h]

timeoutHandler(h) == [kind |-> "timeoutHandler", h |-> h, body |-> "timed out"]

StripPrefix(prefix, h) ==
    IF prefix = "" THEN h ELSE [kind |-> "StripPrefix", prefix |-> prefix, h |-> h]

\* alice.New(c1, ..., cn).Then(h) is c1(c2(...cn(h))); here New(ts, timeoutHandler)
aliceThen(password, h) == TerribleSecurityProvider(password, timeoutHandler(h))

(***************************************************************************)
(* http.ServeMux: m maps a pattern to its handler, es lists the patterns   *)
(* ending in "/" from longest to shortest, hosts says whether some pattern *)
(* does not begin with "/".                                                *)
(***************************************************************************)
NewServeMux == [kind |-> "ServeMux", m |-> << >>, es |-> << >>, hosts |-> FALSE]

appendSorted(es, pattern) ==
    LET n == Len(es)
        i == IF \E j \in 1..n : Len(es[j]) < Len(pattern)
             THEN CHOOSE j \in 1..n : /\ Len(es[j]) < Len(pattern)
                                      /\ \A k \in 1..(j - 1) : Len(es[k]) >= Len(pattern)
             ELSE n + 1
    IN  SubSeq(es, 1, i - 1) \o << pattern >> \o SubSeq(es, i, n)

Handle(mux, pattern, handler) ==
    [mux EXCEPT !.m = (pattern :> handler) @@ @,
                !.es = IF CharAt(pattern, Len(pattern)) = "/"
                       THEN appendSorted(@, pattern) ELSE @,
                !.hosts = @ \/ CharAt(pattern, 1) # "/"]

FirstPrefix(es, path) ==    \* the first entry of es that is a prefix of path, "" if none
    IF \E j \in 1..Len(es) : HasPrefix(path, es[j])
    THEN es[CHOOSE j \in 1..Len(es) : /\ HasPrefix(path, es[j])
                                      /\ \A k \in 1..(j - 1) : ~ HasPrefix(path, es[k])]
    ELSE ""

\* the last entry of es that is a prefix of path, "" if none
LastPrefix(es, path) ==
    IF \E j \in 1..Len(es) : HasPrefix(path, es[j])
    THEN es[CHOOSE j \in 1..Len(es) : /\ HasPrefix(path, es[j])
                                      /\ \A k \in (j + 1)..Len(es) : ~ HasPrefix(path, es[k])]
    ELSE ""

\* variant: the shortest matching prefix is selected
matchShortest(mux, path) ==
    IF path \in DOMAIN mux.m THEN path
    ELSE LastPrefix(mux.es, path)

\* mux.match(path): the pattern that serves path, "" if none
match(mux, path) ==
    IF path \in DOMAIN mux.m THEN path
    ELSE FirstPrefix(mux.es, path)

\* mux.handler(host, path): host-specific patterns take precedence
muxHandler(mux, host, path) ==
    LET hp == IF mux.hosts THEN match(mux, host \o path) ELSE ""
    IN  IF hp # "" THEN hp ELSE match(mux, path)

shouldRedirectRLocked(mux, host, path) ==
    IF path \in DOMAIN mux.m \/ (host \o path) \in DOMAIN mux.m THEN FALSE
    ELSE IF Len(path) = 0 THEN FALSE
    ELSE IF (path \o "/") \in DOMAIN mux.m \/ (host \o path \o "/") \in DOMAIN mux.m
         THEN CharAt(path, Len(path)) # "/"
    ELSE FALSE

\* mux.Handler(r): [redirect, to, pattern]; pattern "" is the NotFoundHandler
muxHandlerFor(mux, r) ==
    IF r.method = "CONNECT"
    THEN IF shouldRedirectRLocked(mux, r.host, r.path)
         THEN [redirect |-> TRUE, to |-> r.path \o "/", pattern |-> r.path \o "/"]
         ELSE [redirect |-> FALSE, to |-> "", pattern |-> muxHandler(mux, r.host, r.path)]
    ELSE LET host == stripHostPort(r.host)
             path == cleanPath(r.path)
         IN  IF shouldRedirectRLocked(mux, host, path)
             THEN [redirect |-> TRUE, to |-> path \o "/", pattern |-> path \o "/"]
             ELSE IF path # r.path
             THEN [redirect |-> TRUE, to |-> path, pattern |-> muxHandler(mux, host, path)]
             ELSE [redirect |-> FALSE, to |-> "", pattern |-> muxHandler(mux, host, r.path)]

\* http.Error(w, error, code)
Error(st, error, code) ==
    Write(WriteHeader(HeaderSet(HeaderSet(st, "Content-Type", "text/plain; charset=utf-8"),
                                "X-Content-Type-Options", "nosniff"), code),
          error \o "\n")

NotFound(st, r) == Error(Record(st, "NotFound", "call", r), "404 page not found", StatusNotFound)

\* http.Redirect(w, r, url, code) for a rooted url
Redirect(st, r, url, code) ==
    LET hadCT == HeaderHas(st.w.handlerHeader, "Content-Type")
        st1   == HeaderSet(Record(st, "Redirect", "call", r), "Location", url)
        st2   == IF ~ hadCT /\ r.method \in {"GET", "HEAD"}
                 THEN HeaderSet(st1, "Content-Type", "text/html; charset=utf-8") ELSE st1
        st3   == WriteHeader(st2, code)
    IN  IF ~ hadCT /\ r.method = "GET"
        THEN Write(st3, "<a href=\"" \o url \o "\">Moved Permanently</a>.\n\n")
        ELSE st3

RECURSIVE ServeHTTP(_, _, _)

\* NewHandler.ServeHTTP
NewHandlerServeHTTP(r, st) ==
    LET st1 == WriteHeader(Record(st, "NewHandler", "call", r), StatusAccepted)
    IN  Record(Write(st1, "Hello, world!\n"), "NewHandler", "return", r)

\* variant: the record is written before the inner handler is called
RequestTimerPostFirst(h, r, st) ==
    LET st1 == [Record(Record(st, "RequestTimer", "pre", r), "RequestTimer", "post", r)
                   EXCEPT !.log = Append(@, "request time for " \o r.path \o "s")]
    IN  ServeHTTP(h, r, st1)

\* variant: the Printf is missing
RequestTimerNoLog(h, r, st) ==
    LET st1 == ServeHTTP(h, r, Record(st, "RequestTimer", "pre", r))
    IN  IF st1.panicked THEN st1 ELSE Record(st1, "RequestTimer", "post", r)

\* variant: the inner handler is called a second time
RequestTimerTwice(h, r, st) ==
    LET st1 == ServeHTTP(h, r, ServeHTTP(h, r, Record(st, "RequestTimer", "pre", r)))
    IN  IF st1.panicked THEN st1
        ELSE [Record(st1, "RequestTimer", "post", r)
                 EXCEPT !.log = Append(@, "request time for " \o r.path \o "s")]

\* the handler RequestTimer(h) returns
RequestTimerServeHTTP(h, r, st) ==
    LET st1 == ServeHTTP(h, r, Record(st, "RequestTimer", "pre", r))
    IN  IF st1.panicked THEN st1      \* the panic passes through: no end, no Printf
        ELSE [Record(st1, "RequestTimer", "post", r)
                 EXCEPT !.log = Append(@, "request time for " \o r.path \o "s")]

\* the rejecting branch of the handler TerribleSecurityProvider(password)(h) returns
securityReject(r, st) ==
    Record(Write(WriteHeader(st, StatusUnauthorized), securityMsg),
           "TerribleSecurityProvider", "reject", r)

securityPasses(password, r) == r.secret = password

\* variant: the return after the rejection is missing
TerribleSecurityProviderNoReturn(password, h, r, st) ==
    LET st1 == Record(st, "TerribleSecurityProvider", "pre", r)
    IN  IF ~ securityPasses(password, r)
        THEN ServeHTTP(h, r, securityReject(r, st1))
        ELSE ServeHTTP(h, r, st1)

\* the handler TerribleSecurityProvider(password)(h) returns
TerribleSecurityProviderServeHTTP(password, h, r, st) ==
    LET st1 == Record(st, "TerribleSecurityProvider", "pre", r)
    IN  IF ~ securityPasses(password, r)
        THEN securityReject(r, st1)
        ELSE ServeHTTP(h, r, st1)

\* the handler http.StripPrefix(prefix, h) returns
StripPrefixServeHTTP(prefix, h, r, st) ==
    LET p   == TrimPrefix(r.path, prefix)
        st1 == Record(st, "StripPrefix", "pre", r)
    IN  IF Len(p) < Len(r.path)
        THEN ServeHTTP(h, [r EXCEPT !.path = p], st1)
        ELSE NotFound(st1, r)

\* ServeMux.ServeHTTP
ServeMuxServeHTTP(mux, r, st) ==
    LET sel == muxHandlerFor(mux, r)
        st1 == Record(st, "ServeMux", sel.pattern, r)
    IN  IF sel.redirect THEN Redirect(st1, r, sel.to, StatusMovedPermanently)
        ELSE IF sel.pattern = "" THEN NotFound(st1, r)
        ELSE ServeHTTP(mux.m[sel.pattern], r, st1)

ServeHTTP(h, r, st) ==
    CASE h.kind = "HandlerFunc"  -> HandlerFuncServeHTTP(h, r, st)
      [] h.kind = "NewHandler"   -> NewHandlerServeHTTP(r, st)
      [] h.kind = "RequestTimer" -> RequestTimerServeHTTP(h.h, r, st)
      [] h.kind = "TerribleSecurityProvider" ->
             TerribleSecurityProviderServeHTTP(h.password, h.h, r, st)
      [] h.kind = "StripPrefix"  -> StripPrefixServeHTTP(h.prefix, h.h, r, st)
      [] h.kind = "ServeMux"     -> ServeMuxServeHTTP(h, r, st)

(***************************************************************************)
(* The handlers the file constructs                                        *)
(***************************************************************************)
aliveHandler == HandlerFunc("alive", << OpWrite("ok!\n") >>)

readyHandler == HandlerFunc("ready", << OpWrite("always\n") >>)

newServeMux == Handle(Handle(NewServeMux, "/alive", aliveHandler), "ready", readyHandler)

userMux ==
    Handle(NewServeMux, "/fetch", HandlerFunc("user", << OpWrite("This is a user!") >>))

recordMux ==
    Handle(NewServeMux, "/fetch", HandlerFunc("record", << OpWrite("This is a record!") >>))

parentChildMux ==
    Handle(Handle(NewServeMux, "/user/", StripPrefix("/user", userMux)),
           "/record", StripPrefix("/record", recordMux))

helloHandler == HandlerFunc("hello", << OpWrite("Hello, world!\n") >>)

\* variant: the two middleware are composed in the other order
muxWithMiddlewareTimerFirst ==
    Handle(NewServeMux, "/hello",
           RequestTimer(TerribleSecurityProvider("PASSWORD", helloHandler)))

muxWithMiddleware ==
    Handle(NewServeMux, "/hello",
           TerribleSecurityProvider("PASSWORD", RequestTimer(helloHandler)))

helloWorldHandler == HandlerFunc("helloWorldHandler", << OpWrite("hello, world!") >>)

aliceWithMiddleWare == aliceThen("PASSWORD", helloWorldHandler)

(***************************************************************************)
(* Inputs: the handlers a middleware may be given, the chains they may be  *)
(* composed into, and the requests that arrive.                            *)
(***************************************************************************)
SinkOps ==
    { OpWriteHeader(StatusAccepted), OpWriteHeader(500), OpWrite("hi\n"),
      OpHeaderSet("X-Late"), OpPanic }

Programs == UNION { [1..n -> SinkOps] : n \in 0..MaxProgramLen }

AnyHandler == { HandlerFunc("h", ops) : ops \in Programs }

Wrappers == { "RequestTimer", "TerribleSecurityProvider" }

Chains == UNION { [1..n -> Wrappers] : n \in 0..MaxChainLen }

RECURSIVE Compose(_, _, _)
Compose(chain, i, h) ==        \* chain[i](chain[i+1](... h))
    IF i > Len(chain) THEN h
    ELSE IF chain[i] = "RequestTimer" THEN RequestTimer(Compose(chain, i + 1, h))
    ELSE TerribleSecurityProvider("PASSWORD", Compose(chain, i + 1, h))

\* the routers of a registration with nested prefixes
nestedPrefixMux ==
    Handle(Handle(NewServeMux, "/user/",
                  StripPrefix("/user", HandlerFunc("/user/", << OpWrite("user") >>))),
           "/user/admin/",
           StripPrefix("/user/admin", HandlerFunc("/user/admin/", << OpWrite("admin") >>)))

Routers == { newServeMux, parentChildMux, muxWithMiddleware, nestedPrefixMux }

Roots ==
    Routers
    \cup { NewHandler, aliceWithMiddleWare }
    \cup { Compose(c, 1, h) : c \in Chains, h \in AnyHandler }
    \cup { timeoutHandler(h) : h \in AnyHandler }
    \cup { aliceThen("PASSWORD", h) : h \in AnyHandler }

Secrets == { "", "PASSWORD", "guess" }

Paths ==
    { "", "/", "/alive", "/ready", "/missing", "/hello", "/fetch", "/user", "/user/",
      "/user/fetch", "/user//fetch", "/record", "/record/fetch", "/user/admin/profile" }

Requests ==
    [ method : {"GET", "CONNECT"}, host : {"localhost:8000", "ready"},
      path : Paths, secret : Secrets ]

\* only a router reads the method, the host and the path
RequestsFor(h) ==
    IF h.kind = "ServeMux" THEN Requests
    ELSE { r \in Requests : r.method = "GET" /\ r.host = "localhost:8000" /\ r.path = "/hello" }

(***************************************************************************)
(* http.TimeoutHandler: its timeoutWriter buffers what the inner handler   *)
(* writes; the handler runs in its own goroutine while ServeHTTP selects   *)
(* on panicChan, done and ctx.Done().                                      *)
(***************************************************************************)
ErrHandlerTimeout == "http: Handler timeout"
DeadlineExceeded == "context deadline exceeded"
Canceled == "context canceled"

NewTimeoutWriter ==
    [ h |-> {}, wbuf |-> "", wroteHeader |-> FALSE, code |-> 0, err |-> "" ]

HasTimeout(h) ==
    \/ h.kind = "timeoutHandler"
    \/ h.kind = "TerribleSecurityProvider" /\ h.h.kind = "timeoutHandler"

TimeoutNode(h) == IF h.kind = "timeoutHandler" THEN h ELSE h.h

InnerOps == TimeoutNode(root).h.ops

Returned == Len(InnerOps) + 2      \* ipc of an inner goroutine that has returned

\* tw.writeHeaderLocked(code)
twWriteHeaderLocked(t, code) ==
    IF t.err # "" THEN t
    ELSE IF t.wroteHeader THEN t          \* superfluous: logged, ignored
    ELSE [t EXCEPT !.wroteHeader = TRUE, !.code = code]

\* variant: Write does not look at tw.err
twWriteAfterTimeout(t, data) ==
    LET t1 == IF ~ t.wroteHeader THEN twWriteHeaderLocked(t, StatusOK) ELSE t
    IN  [tw |-> [t1 EXCEPT !.wbuf = @ \o data], n |-> Len(data), err |-> ""]

\* tw.Write(data): the writer after the call, and the (n, err) it returns
twWrite(t, data) ==
    IF t.err # "" THEN [tw |-> t, n |-> 0, err |-> t.err]
    ELSE LET t1 == IF ~ t.wroteHeader THEN twWriteHeaderLocked(t, StatusOK) ELSE t
         IN  [tw |-> [t1 EXCEPT !.wbuf = @ \o data], n |-> Len(data), err |-> ""]

\* a statement of the inner handler on the timeoutWriter
twApply(t, o) ==
    CASE o.op = "WriteHeader" -> [tw |-> twWriteHeaderLocked(t, o.code), n |-> 0, err |-> ""]
      [] o.op = "Write"       -> twWrite(t, o.data)
      [] o.op = "Header.Set"  -> [tw |-> [t EXCEPT !.h = HeaderWith(@, o.data, "1")],
                                  n |-> 0, err |-> ""]
      [] OTHER                -> [tw |-> t, n |-> 0, err |-> ""]

\* the done case of the select: copy the buffered response to the real writer
flushInner(st, t) ==
    LET st1 == [st EXCEPT !.w.handlerHeader =
                   { kv \in @ : ~ HeaderHas(t.h, kv[1]) } \cup t.h]
        code == IF t.wroteHeader THEN t.code ELSE StatusOK
    IN  Write(WriteHeader(st1, code), t.wbuf)

\* variant: the timeout case sends the buffered bytes ahead of the timeout body
writeTimeoutAfterBuffer(st, err, body) ==
    Write(Write(WriteHeader(st, StatusServiceUnavailable), tw.wbuf), body)

\* the ctx.Done() case of the select
writeTimeout(st, err, body) ==
    IF err = DeadlineExceeded
    THEN Write(WriteHeader(st, StatusServiceUnavailable), body)
    ELSE WriteHeader(st, StatusServiceUnavailable)

(***************************************************************************)
(* concepts/json: marshal decodes JSON text into a testJSON with a         *)
(* json.Decoder that disallows unknown fields.  The text is scanned as     *)
(* encoding/json scans it, over the grammar the inputs use: objects,       *)
(* strings without escapes, and the literals null, true and false.         *)
(***************************************************************************)
goodJSONString == "{\"name\":\"michael\"}"

badJSONString == "{\"name\":\"michael\",\"address\": \"1234 Shady Lane Boston, MA\"}"

SyntaxError == "json.SyntaxError"
ErrUnexpectedEOF == "unexpected EOF"
EOF == "EOF"
UnmarshalTypeError == "json.UnmarshalTypeError"

UnknownField(key) == "json: unknown field \"" \o key \o "\""

isSpace(c) == c \in { " ", "\t", "\r", "\n" }

RECURSIVE skipSpace(_, _)
skipSpace(s, i) ==
    IF i <= Len(s) /\ isSpace(CharAt(s, i)) THEN skipSpace(s, i + 1) ELSE i

JSONValue(kind, str, members) == [kind |-> kind, s |-> str, members |-> members]

Scanned(val, next) == [err |-> "", val |-> val, next |-> next]

ScanFails(err) == [err |-> err, val |-> JSONValue("", "", << >>), next |-> 0]

\* a string, from its opening quote at position i
scanString(s, i) ==
    LET j == IndexFrom(s, "\"", i + 1)
    IN  IF j = 0 THEN ScanFails(ErrUnexpectedEOF)
        ELSE Scanned(JSONValue("string", SubSeq(s, i + 1, j - 1), << >>), j + 1)

\* one of the literals null, true, false, from its first letter at position i
scanLiteral(s, i) ==
    LET lit  == CASE CharAt(s, i) = "n" -> "null"
                  [] CharAt(s, i) = "t" -> "true"
                  [] CharAt(s, i) = "f" -> "false"
        last == IF i + Len(lit) - 1 <= Len(s) THEN i + Len(lit) - 1 ELSE Len(s)
        got  == SubSeq(s, i, last)
    IN  IF got = lit
        THEN Scanned(JSONValue(IF lit = "null" THEN "null" ELSE "bool", lit, << >>), last + 1)
        ELSE IF HasPrefix(lit, got) THEN ScanFails(ErrUnexpectedEOF)
        ELSE ScanFails(SyntaxError)

RECURSIVE scanValue(_, _)
RECURSIVE scanObject(_, _, _, _)

\* the members of an object, from after its { or after a comma
scanObject(s, i0, acc, afterComma) ==
    LET i == skipSpace(s, i0)
    IN  IF i > Len(s) THEN ScanFails(ErrUnexpectedEOF)
        ELSE IF CharAt(s, i) = "}" /\ ~ afterComma
        THEN Scanned(JSONValue("object", "", acc), i + 1)
        ELSE IF CharAt(s, i) # "\"" THEN ScanFails(SyntaxError)
        ELSE LET k == scanString(s, i)
                 c == skipSpace(s, k.next)
             IN  IF k.err # "" THEN k
                 ELSE IF c > Len(s) THEN ScanFails(ErrUnexpectedEOF)
                 ELSE IF CharAt(s, c) # ":" THEN ScanFails(SyntaxError)
                 ELSE LET v    == scanValue(s, c + 1)
                          e    == skipSpace(s, v.next)
                          acc2 == Append(acc, [key |-> k.val.s, val |-> v.val])
                      IN  IF v.err # "" THEN v
                          ELSE IF e > Len(s) THEN ScanFails(ErrUnexpectedEOF)
                          ELSE IF CharAt(s, e) = "," THEN scanObject(s, e + 1, acc2, TRUE)
                          ELSE IF CharAt(s, e) = "}"
                          THEN Scanned(JSONValue("object", "", acc2), e + 1)
                          ELSE ScanFails(SyntaxError)

scanValue(s, i0) ==
    LET i == skipSpace(s, i0)
    IN  IF i > Len(s) THEN ScanFails(ErrUnexpectedEOF)
        ELSE IF CharAt(s, i) = "{" THEN scanObject(s, i + 1, << >>, FALSE)
        ELSE IF CharAt(s, i) = "\"" THEN scanString(s, i)
        ELSE IF CharAt(s, i) \in { "n", "t", "f" } THEN scanLiteral(s, i)
        ELSE ScanFails(SyntaxError)

Lower == "abcdefghijklmnopqrstuvwxyz"

Upper == "ABCDEFGHIJKLMNOPQRSTUVWXYZ"

foldChar(c) ==
    IF IndexFrom(Lower, c, 1) # 0 THEN CharAt(Upper, IndexFrom(Lower, c, 1)) ELSE c

\* the case-insensitive comparison of a key with a field's name
equalFold(s, t) ==
    /\ Len(s) = Len(t)
    /\ \A i \in 1..Len(s) : foldChar(CharAt(s, i)) = foldChar(CharAt(t, i))

\* variant: only the exact name selects the field
fieldForExact(key) == IF key = "name" THEN "Name" ELSE ""

\* the field of testJSON a key selects: the exact name first, then case-insensitively
fieldFor(key) ==
    IF key = "name" THEN "Name"
    ELSE IF equalFold("name", key) THEN "Name"
    ELSE ""

\* d.saveError keeps the first error
saveError(d, err) == IF d.err = "" THEN [d EXCEPT !.err = err] ELSE d

\* the value of one member stored into the string field Name
storeName(d, val) ==
    CASE val.kind = "string" -> [d EXCEPT !.tj.Name = val.s]
      [] val.kind = "null"   -> d
      [] OTHER               -> saveError(d, UnmarshalTypeError)

\* variant: unknown fields are skipped, as without DisallowUnknownFields
decodeMemberLenient(d, m) ==
    IF fieldFor(m.key) = "Name" THEN storeName(d, m.val) ELSE d

\* one member of the object, decoded with DisallowUnknownFields
decodeMember(d, m) ==
    IF fieldFor(m.key) = "Name" THEN storeName(d, m.val)
    ELSE saveError(d, UnknownField(m.key))

RECURSIVE decodeObject(_, _, _)
decodeObject(d, members, i) ==
    IF i > Len(members) THEN d
    ELSE decodeObject(decodeMember(d, members[i]), members, i + 1)

\* d.Decode(tj): the next value of the text is scanned whole, then stored
Decode(text, v) ==
    LET i  == skipSpace(text, 1)
        sc == scanValue(text, i)
        d  == [tj |-> v, err |-> ""]
    IN  IF i > Len(text) THEN [d EXCEPT !.err = EOF]
        ELSE IF sc.err # "" THEN [d EXCEPT !.err = sc.err]
        ELSE CASE sc.val.kind = "object" -> decodeObject(d, sc.val.members, 1)
               [] sc.val.kind = "null"   -> d
               [] OTHER                  -> [d EXCEPT !.err = UnmarshalTypeError]

\* marshal(b, tj): the error it returns, the value it leaves in tj, what it logs
marshal(b, v) ==
    LET d == Decode(b, v)
    IN  [tj |-> d.tj, err |-> d.err,
         log |-> IF d.err # "" THEN "got an err  " \o d.err ELSE "no error"]

(***************************************************************************)
(* concepts/json (json_test.go): countLetter reads an io.Reader to its     *)
(* first error, counting the letters of what each Read delivers.           *)
(***************************************************************************)
\* the bytes 32..95 and 97..126, in order
AsciiLow == " !\"#$%&'()*+,-./0123456789:;<=>?@ABCDEFGHIJKLMNOPQRSTUVWXYZ[\\]^_"

AsciiHigh == "abcdefghijklmnopqrstuvwxyz{|}~"

\* the value of a byte
byte(c) ==
    IF IndexFrom(AsciiLow, c, 1) # 0 THEN 31 + IndexFrom(AsciiLow, c, 1)
    ELSE 96 + IndexFrom(AsciiHigh, c, 1)

\* (b >= 'A' && b <= 'Z') || (b >= 'a' && b <= 'z')
isLetter(c) ==
    \/ byte(c) >= byte("A") /\ byte(c) <= byte("Z")
    \/ byte(c) >= byte("a") /\ byte(c) <= byte("z")

EmptyMap == << >>

\* out[key]++
Incr(m, key) ==
    IF key \in DOMAIN m THEN [m EXCEPT ![key] = @ + 1] ELSE (key :> 1) @@ m

\* for _, b := range buf[:n] { ... }
RECURSIVE countBytes(_, _, _, _)
countBytes(m, bytes, i, n) ==
    IF i > n THEN m
    ELSE countBytes(IF isLetter(CharAt(bytes, i)) THEN Incr(m, CharAt(bytes, i)) ELSE m,
                    bytes, i + 1, n)

\* ourReader.Read: return 0, nil
ourReaderRead == [data |-> "", err |-> ""]

\* r.Read(buf) for a reader that goes through its script of results and then has
\* nothing more to deliver, as ourReader
Read(rdr) ==
    IF rdr.pos <= Len(rdr.script) THEN rdr.script[rdr.pos] ELSE ourReaderRead

NotCalled == [nilMap |-> FALSE, out |-> EmptyMap, err |-> ""]

\* countLetter's locals after buf := make([]byte, 2048); out := map[string]int{}
\* (buf holds the bytes written into it; the zero bytes after them are left out)
countLetterEntry(pc) ==
    [pc |-> pc, buf |-> "", out |-> EmptyMap, reads |-> 0, ret |-> NotCalled]

\* the saturating count of Read calls
MoreReads(n, cap) == IF n < cap THEN n + 1 ELSE n

\* variant: the error is looked at before the bytes are counted
countLetterErrFirst(f, res, cap) ==
    LET n    == Len(res.data)
        buf2 == res.data \o SubSeq(f.buf, n + 1, Len(f.buf))
        f2   == [f EXCEPT !.buf = buf2, !.reads = MoreReads(f.reads, cap)]
    IN  IF res.err = EOF
        THEN [f2 EXCEPT !.pc = "returned",
                        !.ret = [nilMap |-> FALSE, out |-> f.out, err |-> ""]]
        ELSE IF res.err # ""
        THEN [f2 EXCEPT !.pc = "returned",
                        !.ret = [nilMap |-> TRUE, out |-> EmptyMap, err |-> res.err]]
        ELSE [f2 EXCEPT !.out = countBytes(f.out, buf2, 1, n)]

\* variant: a Read that delivers nothing ends the loop
countLetterZeroEnds(f, res, cap) ==
    LET n    == Len(res.data)
        buf2 == res.data \o SubSeq(f.buf, n + 1, Len(f.buf))
        out2 == countBytes(f.out, buf2, 1, n)
        f2   == [f EXCEPT !.buf = buf2, !.out = out2, !.reads = MoreReads(f.reads, cap)]
    IN  IF res.err = EOF \/ (res.err = "" /\ n = 0)
        THEN [f2 EXCEPT !.pc = "returned",
                        !.ret = [nilMap |-> FALSE, out |-> out2, err |-> ""]]
        ELSE IF res.err # ""
        THEN [f2 EXCEPT !.pc = "returned",
                        !.ret = [nilMap |-> TRUE, out |-> EmptyMap, err |-> res.err]]
        ELSE f2

\* one iteration of countLetter's loop, given what r.Read(buf) returned
countLetterLoop(f, res, cap) ==
    LET n    == Len(res.data)
        buf2 == res.data \o SubSeq(f.buf, n + 1, Len(f.buf))
        out2 == countBytes(f.out, buf2, 1, n)
        f2   == [f EXCEPT !.buf = buf2, !.out = out2, !.reads = MoreReads(f.reads, cap)]
    IN  IF res.err = EOF
        THEN [f2 EXCEPT !.pc = "returned",
                        !.ret = [nilMap |-> FALSE, out |-> out2, err |-> ""]]
        ELSE IF res.err # ""
        THEN [f2 EXCEPT !.pc = "returned",
                        !.ret = [nilMap |-> TRUE, out |-> EmptyMap, err |-> res.err]]
        ELSE f2

(***************************************************************************)
(* concepts/context: the contexts of package context as the file uses      *)
(* them (Background, a request's context, the context a middleware wraps   *)
(* or TimeoutHandler derives), kept by index in a sequence, and the        *)
(* handler Middleware returns.                                             *)
(***************************************************************************)
Absent == 0          \* Value's nil

NewCtx(kind, parent, key, val) ==
    [kind |-> kind, parent |-> parent, key |-> key, val |-> val, err |-> "",
     children |-> {}, direct |-> ""]

\* ctx := context.Background()
Background == << NewCtx("emptyCtx", 0, "", Absent) >>

\* ctx.Err(): a valueCtx answers with its parent's, an emptyCtx is never cancelled
RECURSIVE Err(_, _)
Err(cs, c) ==
    CASE cs[c].kind = "emptyCtx" -> ""
      [] cs[c].kind = "valueCtx" -> Err(cs, cs[c].parent)
      [] OTHER                   -> cs[c].err

\* <-ctx.Done() is ready
Done(cs, c) == Err(cs, c) # ""

\* variant: a key the context did not bind itself is not looked up in the parent
RECURSIVE ValueOwnOnly(_, _, _)
ValueOwnOnly(cs, c, key) ==
    IF cs[c].kind = "valueCtx" /\ cs[c].key = key THEN cs[c].val ELSE Absent

\* ctx.Value(key)
RECURSIVE Value(_, _, _)
Value(cs, c, key) ==
    CASE cs[c].kind = "emptyCtx" -> Absent
      [] cs[c].kind = "valueCtx" ->
             IF cs[c].key = key THEN cs[c].val ELSE Value(cs, cs[c].parent, key)
      [] OTHER                   -> Value(cs, cs[c].parent, key)

\* the nearest context at or above p that can be cancelled, 0 if none
RECURSIVE parentCancelCtx(_, _)
parentCancelCtx(cs, p) ==
    CASE cs[p].kind = "emptyCtx" -> 0
      [] cs[p].kind = "valueCtx" -> parentCancelCtx(cs, cs[p].parent)
      [] OTHER                   -> p

\* c.cancel(false, err): the context and the children registered with it
RECURSIVE cancel(_, _, _)
RECURSIVE cancelEach(_, _, _)
cancel(cs, c, err) ==
    IF cs[c].err # "" THEN cs
    ELSE cancelEach([cs EXCEPT ![c].err = err, ![c].children = {}], cs[c].children, err)

cancelEach(cs, children, err) ==
    IF children = {} THEN cs
    ELSE LET child == CHOOSE x \in children : TRUE
         IN  cancelEach(cancel(cs, child, err), children \ { child }, err)

\* the CancelFunc of c, or its timer: c.cancel(true, err)
cancelFunc(cs, c, err) ==
    LET a   == parentCancelCtx(cs, cs[c].parent)
        cs1 == cancel(cs, c, err)
    IN  IF a = 0 THEN cs1 ELSE [cs1 EXCEPT ![a].children = @ \ { c }]

\* variant: a child derived from a cancelled parent is not cancelled at birth
propagateCancelLate(cs, p, child) ==
    LET a == parentCancelCtx(cs, p)
    IN  IF a = 0 \/ cs[a].err # "" THEN cs
        ELSE [cs EXCEPT ![a].children = @ \cup { child }]

\* propagateCancel(parent, child)
propagateCancel(cs, p, child) ==
    LET a == parentCancelCtx(cs, p)
    IN  IF a = 0 THEN cs
        ELSE IF cs[a].err # "" THEN cancel(cs, child, cs[a].err)
        ELSE [cs EXCEPT ![a].children = @ \cup { child }]

\* context.WithCancel(parent); the new context is the last of the result
WithCancel(cs, p) ==
    propagateCancel(Append(cs, NewCtx("cancelCtx", p, "", Absent)), p, Len(cs) + 1)

\* context.WithTimeout(parent, dt)
WithTimeout(cs, p) ==
    propagateCancel(Append(cs, NewCtx("timerCtx", p, "", Absent)), p, Len(cs) + 1)

\* context.WithValue(parent, key, val)
WithValue(cs, p, key, val) == Append(cs, NewCtx("valueCtx", p, key, val))

\* req.Context(): a request without a context answers with Background()
Context(r) == IF r.ctx = 0 THEN 1 ELSE r.ctx

\* req.WithContext(ctx): a copy of the request with that context
WithContext(r, ctx) == [r EXCEPT !.ctx = ctx]

\* a handler called by a middleware: it notes the writer and the context it was
\* given and runs its body on that writer
CallHandler(handler, rw, r, st) ==
    LET s1 == RunOps(handler.ops, 1,
                  [w |-> st.writers[rw], log |-> << >>, trace |-> << >>, panicked |-> FALSE])
    IN  [st EXCEPT !.writers[rw] = s1.w,
                   !.calls = Append(@, [rw |-> rw, ctx |-> r.ctx])]

\* variant: the request is given a fresh context
MiddlewareFreshContext(handler, rw, r, st) ==
    CallHandler(handler, rw, WithContext(r, 1), st)

\* the handler Middleware(handler) returns
MiddlewareServeHTTP(handler, rw, r, st) ==
    LET ctx == Context(r)
        r2  == WithContext(r, ctx)
    IN  CallHandler(handler, rw, r2, st)

(***************************************************************************)
(* The server                                                              *)
(***************************************************************************)
\* the functions of main.go that call ListenAndServe, and the handler of the
\* server each starts (listen is handed its server)
Starters == { "listen", "newServeMux", "aliceWithMiddleWare" }

StartedBy(f) ==
    CASE f = "listen"              -> Roots
      [] f = "newServeMux"         -> { newServeMux }
      [] f = "aliceWithMiddleWare" -> { aliceWithMiddleWare }

BindError == "listen tcp :8000: bind: address already in use"
AcceptError == "accept tcp [::]:8000: accept4: too many open files in system"

NotReturned == [returned |-> FALSE, panic |-> ""]

\* listen: err := s.ListenAndServe(); if err != nil { panic(err) }
listenEnds(err) == [returned |-> TRUE, panic |-> err]

\* newServeMux, aliceWithMiddleWare: s.ListenAndServe() as a statement
startEnds(err) == [returned |-> TRUE, panic |-> ""]

NoRequest == [method |-> "", host |-> "", path |-> "", secret |-> ""]

NoDeadline == [fired |-> FALSE, innerReturned |-> FALSE, innerWrote |-> FALSE]

\* the other packages' programs have not been started
JSONIdle ==
    /\ tj = [Name |-> ""]          \* tj := testJSON{}
    /\ marshalLog = << >>

ContextIdle ==
    /\ ctxs = << >>
    /\ handoff = << >>

ReaderIdle ==
    /\ reader = [script |-> << >>, pos |-> 1]
    /\ cl = countLetterEntry("idle")

PackagesIdle == JSONIdle /\ ContextIdle /\ ReaderIdle

\* no request has arrived and ListenAndServe has not returned
RequestIdle ==
    /\ req = NoRequest
    /\ phase = "idle"
    /\ w = NewResponse
    /\ log = << >>
    /\ trace = << >>
    /\ tw = NewTimeoutWriter
    /\ ctxErr = ""
    /\ reqCtxErr = ""
    /\ done = FALSE
    /\ panicChan = FALSE
    /\ ipc = -1
    /\ innerLog = << >>
    /\ branch = ""
    /\ atDeadline = NoDeadline
    /\ serveErr = ""
    /\ outcome = NotReturned

Init ==
    /\ root \in Roots
    /\ starter \in { f \in Starters : root \in StartedBy(f) }
    /\ RequestIdle
    /\ PackagesIdle

\* the server as the other packages' programs see it: not used
ServerIdle ==
    /\ root = NewHandler
    /\ starter = "listen"
    /\ RequestIdle

\* what the other packages' programs leave alone (they write through log)
ServerVars == << root, req, phase, w, trace, tw, ctxErr, reqCtxErr, done, panicChan, ipc,
                innerLog, branch, atDeadline, starter, serveErr, outcome >>

Now == [w |-> w, log |-> log, trace |-> trace, panicked |-> FALSE]

\* conn.serve once the handler is back: the panic is logged and the connection
\* closed, or the response is completed (an implicit WriteHeader(StatusOK))
finishRequest(st) ==
    IF st.panicked THEN [st EXCEPT !.log = Append(@, "http: panic serving")]
    ELSE IF ~ st.w.wroteHeader THEN WriteHeader(st, StatusOK) ELSE st

Finish(st0) ==
    LET st == finishRequest(st0)
    IN  /\ w' = st.w
        /\ log' = st.log
        /\ trace' = st.trace
        /\ phase' = IF st.panicked THEN "aborted" ELSE "finished"
        /\ reqCtxErr' = IF reqCtxErr = "" THEN Canceled ELSE reqCtxErr

Over == phase \in {"finished", "aborted"}

TimeoutVars == << tw, ctxErr, done, panicChan, ipc, innerLog, branch, atDeadline >>

\* a request arrives
Accept(r) ==
    /\ phase = "idle"
    /\ serveErr = ""
    /\ r \in RequestsFor(root)
    /\ req' = r
    /\ phase' = "accepted"
    /\ UNCHANGED << root, w, log, trace, reqCtxErr >>
    /\ UNCHANGED TimeoutVars
    /\ UNCHANGED Aside

\* serverHandler.ServeHTTP for a chain that runs in the request's goroutine
Serve ==
    /\ phase = "accepted"
    /\ ~ HasTimeout(root)
    /\ Finish(ServeHTTP(root, req, Now))
    /\ UNCHANGED << root, req >>
    /\ UNCHANGED TimeoutVars
    /\ UNCHANGED Aside

\* the client goes away: the server cancels the request's context
ClientGone ==
    /\ phase \in {"accepted", "timeout"}
    /\ HasTimeout(root)
    /\ reqCtxErr = ""
    /\ reqCtxErr' = Canceled
    /\ ctxErr' = IF phase = "timeout" /\ ctxErr = "" THEN Canceled ELSE ctxErr
    /\ UNCHANGED << root, req, phase, w, log, trace, tw, done, panicChan, ipc,
                    innerLog, branch, atDeadline >>
    /\ UNCHANGED Aside

\* the chain up to TimeoutHandler: the password check, then the timeout's setup
ServeTimeout ==
    /\ phase = "accepted"
    /\ HasTimeout(root)
    /\ LET st1 == IF root.kind = "TerribleSecurityProvider"
                  THEN Record(Now, "TerribleSecurityProvider", "pre", req) ELSE Now
       IN  IF root.kind = "TerribleSecurityProvider" /\ ~ securityPasses(root.password, req)
           THEN /\ Finish(securityReject(req, st1))
                /\ UNCHANGED TimeoutVars
           ELSE /\ trace' = Record(st1, "timeoutHandler", "pre", req).trace
                /\ ctxErr' = reqCtxErr       \* context.WithTimeout(r.Context(), dt)
                /\ ipc' = 0                  \* go func() { h.handler.ServeHTTP(tw, r) ... }
                /\ phase' = "timeout"
                /\ UNCHANGED << w, log, reqCtxErr, tw, done, panicChan, innerLog,
                                branch, atDeadline >>
    /\ UNCHANGED << root, req >>
    /\ UNCHANGED Aside

\* the inner goroutine is scheduled and enters h.handler.ServeHTTP(tw, r)
InnerCall ==
    /\ HasTimeout(root)
    /\ ipc = 0
    /\ ipc' = 1
    /\ trace' = Append(trace, Ev(TimeoutNode(root).h.name, "call", req))
    /\ UNCHANGED << root, req, phase, w, log, tw, ctxErr, reqCtxErr, done, panicChan,
                    innerLog, branch, atDeadline >>
    /\ UNCHANGED Aside

\* the inner handler's next operation on its writer; a panic is recovered
\* into panicChan and the goroutine ends without closing done
InnerStep ==
    /\ HasTimeout(root)
    /\ ipc \in 1..Len(InnerOps)
    /\ LET o == InnerOps[ipc]
           res == twApply(tw, o)
       IN  /\ tw' = res.tw
           /\ innerLog' = Append(innerLog,
                  [op |-> o.op, n |-> res.n, err |-> res.err,
                   fired |-> atDeadline.fired, branch |-> branch])
           /\ panicChan' = (panicChan \/ o.op = "panic")
           /\ ipc' = IF o.op = "panic" THEN Returned ELSE ipc + 1
           /\ log' = IF o.op = "WriteHeader" /\ tw.err = "" /\ tw.wroteHeader
                     THEN Append(log, "http: superfluous response.WriteHeader call")
                     ELSE log
    /\ UNCHANGED << root, req, phase, w, trace, ctxErr, reqCtxErr, done, branch,
                    atDeadline >>
    /\ UNCHANGED Aside

\* the inner handler returns: close(done)
InnerReturn ==
    /\ HasTimeout(root)
    /\ ipc = Len(InnerOps) + 1
    /\ ipc' = Returned
    /\ done' = TRUE
    /\ trace' = Append(trace, Ev(TimeoutNode(root).h.name, "return", req))
    /\ UNCHANGED << root, req, phase, w, log, tw, ctxErr, reqCtxErr, panicChan,
                    innerLog, branch, atDeadline >>
    /\ UNCHANGED Aside

\* the timer of context.WithTimeout fires
DeadlineFire ==
    /\ phase = "timeout"
    /\ ctxErr = ""
    /\ ctxErr' = DeadlineExceeded
    /\ atDeadline' = [fired |-> TRUE, innerReturned |-> (ipc = Returned),
                      innerWrote |-> tw.wroteHeader]
    /\ UNCHANGED << root, req, phase, w, log, trace, tw, reqCtxErr, done, panicChan,
                    ipc, innerLog, branch >>
    /\ UNCHANGED Aside

\* TimeoutHandler returns: its deferred cancelCtx() runs, then the server finishes
TimeoutReturn(st, b) ==
    /\ Finish(Record(st, "timeoutHandler", "post", req))
    /\ branch' = b
    /\ ctxErr' = IF ctxErr = "" THEN Canceled ELSE ctxErr
    /\ UNCHANGED << root, req, done, panicChan, ipc, innerLog, atDeadline >>
    /\ UNCHANGED Aside

\* case p := <-panicChan: panic(p)
SelectPanic ==
    /\ phase = "timeout"
    /\ panicChan
    /\ tw' = tw
    /\ TimeoutReturn([Now EXCEPT !.panicked = TRUE], "panic")

\* case <-done: the buffered response goes to the real writer
SelectDone ==
    /\ phase = "timeout"
    /\ done
    /\ tw' = tw
    /\ TimeoutReturn(flushInner(Now, tw), "done")

\* case <-ctx.Done(): the timeout response goes out and tw refuses further writes
SelectTimeout ==
    /\ phase = "timeout"
    /\ ctxErr # ""
    /\ tw' = [tw EXCEPT !.err = IF ctxErr = DeadlineExceeded
                                THEN ErrHandlerTimeout ELSE ctxErr]
    /\ TimeoutReturn(writeTimeout(Now, ctxErr, TimeoutNode(root).body), "timeout")

\* s.ListenAndServe() returns: net.Listen fails before anything is accepted, or
\* the serve loop's Accept fails
ListenAndServe(err) ==
    /\ serveErr = ""
    /\ \/ phase = "idle"
       \/ Over /\ err = AcceptError
    /\ serveErr' = err
    /\ UNCHANGED << root, req, phase, w, log, trace, reqCtxErr, starter, outcome >>
    /\ UNCHANGED TimeoutVars
    /\ UNCHANGED PackageVars

\* the starting function goes on from its ListenAndServe call
StarterEnds ==
    /\ serveErr # ""
    /\ ~ outcome.returned
    /\ outcome' = IF starter = "listen" THEN listenEnds(serveErr) ELSE startEnds(serveErr)
    /\ UNCHANGED << root, req, phase, w, log, trace, reqCtxErr, starter, serveErr >>
    /\ UNCHANGED TimeoutVars
    /\ UNCHANGED PackageVars

Next ==
    \/ \E err \in { BindError, AcceptError } : ListenAndServe(err)
    \/ StarterEnds
    \/ \E r \in Requests : Accept(r)
    \/ Serve
    \/ ClientGone
    \/ ServeTimeout
    \/ InnerCall
    \/ InnerStep
    \/ InnerReturn
    \/ DeadlineFire
    \/ SelectPanic
    \/ SelectDone
    \/ SelectTimeout

Spec == Init /\ [][Next]_vars

(***************************************************************************)
(* concepts/json: TestMarshal's calls of marshal on one testJSON           *)
(***************************************************************************)
MaxMembers == 1

MarshalCalls == 2

JSONKeys == { "name", "NAME", "address" }

StringValue(str) == [kind |-> "string", text |-> "\"" \o str \o "\"", s |-> str]

JSONValues ==
    { StringValue("michael"),
      [kind |-> "null", text |-> "null", s |-> ""],
      [kind |-> "bool", text |-> "true", s |-> ""] }

Members == [key : JSONKeys, val : JSONValues]

memberText(m) == "\"" \o m.key \o "\":" \o m.val.text

RECURSIVE joinMembers(_, _)
joinMembers(ms, i) ==
    IF i > Len(ms) THEN ""
    ELSE (IF i > 1 THEN "," ELSE "") \o memberText(ms[i]) \o joinMembers(ms, i + 1)

\* an input of marshal: the bytes, and the object they were written from
ObjectInput(text, ms) == [b |-> text, object |-> TRUE, members |-> ms]

OtherInput(text) == [b |-> text, object |-> FALSE, members |-> << >>]

Named(str) == [key |-> "name", val |-> StringValue(str)]

JSONInputs ==
    { ObjectInput("{" \o joinMembers(ms, 1) \o "}", ms) :
          ms \in UNION { [1..n -> Members] : n \in 0..MaxMembers } }
    \cup { ObjectInput(goodJSONString, << Named("michael") >>),
           ObjectInput(badJSONString,
               << Named("michael"),
                  [key |-> "address", val |-> StringValue("1234 Shady Lane Boston, MA")] >>),
           ObjectInput(" { \"name\" : \"michael\" } ", << Named("michael") >>),
           ObjectInput("{\"name\":\"ann\",\"name\":\"michael\"}",
               << Named("ann"), Named("michael") >>),
           ObjectInput("{\"address\":\"1234 Shady Lane\",\"name\":\"michael\"}",
               << [key |-> "address", val |-> StringValue("1234 Shady Lane")],
                  Named("michael") >>),
           ObjectInput("{\"name\":{\"name\":\"michael\"}}",
               << [key |-> "name",
                   val |-> [kind |-> "object", text |-> "{\"name\":\"michael\"}", s |-> ""]] >>),
           OtherInput(""), OtherInput("null"), OtherInput("\"michael\""),
           OtherInput("{\"name\":\"mich"), OtherInput("{\"name\" \"michael\"}"),
           OtherInput("{\"name\":\"michael\",}") }

\* err := marshal(b, &tj)
Marshal(in) ==
    /\ Len(marshalLog) < MarshalCalls
    /\ LET res == marshal(in.b, tj)
       IN  /\ tj' = res.tj
           /\ marshalLog' = Append(marshalLog,
                  [in |-> in, was |-> tj, now |-> res.tj, err |-> res.err])
           /\ log' = Append(log, res.log)
    /\ UNCHANGED ServerVars
    /\ UNCHANGED << ctxs, handoff, reader, cl >>

InitMarshal == ServerIdle /\ PackagesIdle

NextMarshal == \E in \in JSONInputs : Marshal(in)

SpecMarshal == InitMarshal /\ [][NextMarshal]_vars

(***************************************************************************)
(* concepts/json: countLetter on a reader.  Its loop is never held up: the *)
(* next iteration always comes.                                            *)
(***************************************************************************)
MaxScript == 2

Chunks == { "", "a", "aZ", "@[_{" }

ReadErrors == { "", EOF, ErrUnexpectedEOF }

Readers ==
    { [script |-> sc, pos |-> 1] :
          sc \in UNION { [1..n -> [data : Chunks, err : ReadErrors]] : n \in 0..MaxScript } }

\* the loop body: n, err := r.Read(buf), the count, the two returns
Iterate ==
    /\ cl.pc = "loop"
    /\ cl' = countLetterLoop(cl, Read(reader), MaxScript + 1)
    /\ reader' = [reader EXCEPT !.pos = IF @ <= Len(reader.script) THEN @ + 1 ELSE @]
    /\ UNCHANGED ServerVars
    /\ UNCHANGED << log, tj, marshalLog, ctxs, handoff >>

InitCountLetter ==
    /\ ServerIdle
    /\ JSONIdle
    /\ ContextIdle
    /\ reader \in Readers
    /\ cl = countLetterEntry("loop")

NextCountLetter == Iterate

SpecCountLetter == InitCountLetter /\ [][NextCountLetter]_vars /\ WF_vars(Iterate)

(***************************************************************************)
(* concepts/context: contexts are derived from Background(), cancelled by  *)
(* their CancelFunc or their timer, and a request carrying one of them is  *)
(* served through Middleware or through http.TimeoutHandler.               *)
(***************************************************************************)
MaxContexts == 4

Keys == { "user", "trace" }

ContextHandlers == { helloWorldHandler }

NewWriters == [ i \in 1..2 |-> NewResponse ]

\* what the contexts' program leaves alone
ContextRest == << ServerVars, log, tj, marshalLog, reader, cl >>

\* ctx, cancel := context.WithCancel(parent)
DeriveCancel(p) ==
    /\ Len(ctxs) < MaxContexts
    /\ ctxs' = WithCancel(ctxs, p)
    /\ UNCHANGED handoff
    /\ UNCHANGED ContextRest

\* ctx, cancel := context.WithTimeout(parent, dt)
DeriveTimeout(p) ==
    /\ Len(ctxs) < MaxContexts
    /\ ctxs' = WithTimeout(ctxs, p)
    /\ UNCHANGED handoff
    /\ UNCHANGED ContextRest

\* ctx := context.WithValue(parent, key, val), val a value no other context binds
DeriveValue(p, key) ==
    /\ Len(ctxs) < MaxContexts
    /\ ctxs' = WithValue(ctxs, p, key, Len(ctxs) + 1)
    /\ UNCHANGED handoff
    /\ UNCHANGED ContextRest

\* cancel()
Cancel(c) ==
    /\ ctxs[c].kind \in { "cancelCtx", "timerCtx" }
    /\ ctxs[c].direct = ""
    /\ ctxs' = [cancelFunc(ctxs, c, Canceled) EXCEPT ![c].direct = "cancel"]
    /\ UNCHANGED handoff
    /\ UNCHANGED ContextRest

\* the timer of a context derived by WithTimeout fires
TimerFires(c) ==
    /\ ctxs[c].kind = "timerCtx"
    /\ ctxs[c].err = ""
    /\ ctxs' = [cancelFunc(ctxs, c, DeadlineExceeded) EXCEPT ![c].direct = "timer"]
    /\ UNCHANGED handoff
    /\ UNCHANGED ContextRest

\* Middleware(handler).ServeHTTP(rw, req), req carrying the context c (0: none)
ServeMiddleware(handler, rw, c) ==
    /\ handoff = << >>
    /\ handoff' = << [mw |-> "Middleware", handler |-> handler, rw |-> rw,
                       req |-> [ctx |-> c],
                       st |-> MiddlewareServeHTTP(handler, rw, [ctx |-> c],
                                  [writers |-> NewWriters, calls |-> << >>])] >>
    /\ UNCHANGED ctxs
    /\ UNCHANGED ContextRest

\* timeoutHandler(handler).ServeHTTP(rw, req): the inner handler is started on
\* the timeoutWriter (writer 0) with r.WithContext(ctx), ctx derived by
\* context.WithTimeout(r.Context(), dt)
ServeTimeoutHandler(handler, rw, c) ==
    /\ handoff = << >>
    /\ Len(ctxs) < MaxContexts
    /\ ctxs' = WithTimeout(ctxs, Context([ctx |-> c]))
    /\ handoff' = << [mw |-> "timeoutHandler", handler |-> handler, rw |-> rw,
                       req |-> [ctx |-> c],
                       st |-> [writers |-> NewWriters,
                               calls |-> << [rw |-> 0, ctx |-> Len(ctxs) + 1] >>]] >>
    /\ UNCHANGED ContextRest

InitContext ==
    /\ ServerIdle
    /\ JSONIdle
    /\ ReaderIdle
    /\ ctxs = Background
    /\ handoff = << >>

NextContext ==
    \/ \E p \in DOMAIN ctxs : DeriveCancel(p)
    \/ \E p \in DOMAIN ctxs : DeriveTimeout(p)
    \/ \E p \in DOMAIN ctxs, key \in Keys : DeriveValue(p, key)
    \/ \E c \in DOMAIN ctxs : Cancel(c)
    \/ \E c \in DOMAIN ctxs : TimerFires(c)
    \/ \E handler \in ContextHandlers, rw \in DOMAIN NewWriters, c \in 0..Len(ctxs) :
           ServeMiddleware(handler, rw, c)
    \/ \E handler \in ContextHandlers, rw \in DOMAIN NewWriters, c \in 0..Len(ctxs) :
           ServeTimeoutHandler(handler, rw, c)

SpecContext == InitContext /\ [][NextContext]_vars

(***************************************************************************)
(* What the claims speak of                                                *)
(***************************************************************************)
Fresh == [w |-> NewResponse, log |-> << >>, trace |-> << >>, panicked |-> FALSE]

CountEv(tr, who, ev) ==
    Cardinality({ i \in DOMAIN tr : tr[i].who = who /\ tr[i].ev = ev })

EntryWho(h) == IF h.kind = "HandlerFunc" THEN h.name ELSE h.kind

EntryEv(h) == IF h.kind = "HandlerFunc" THEN "call" ELSE "pre"

TimerRecords ==
    Cardinality({ i \in DOMAIN log : HasPrefix(log[i], "request time for ") })

\* C1: the handler TerribleSecurityProvider(password)(h) returns answers a request
\* whose X-Secret-Password differs from password with 401 and securityMsg and never
\* invokes h; given the password it invokes h once, with the same request and
\* writer, and writes nothing itself (what reaches the writer, the log and the
\* events is what h alone produces).
C1_AuthorizationGate ==
    (root.kind = "TerribleSecurityProvider" /\ Over) =>
        IF req.secret # root.password
        THEN /\ phase = "finished"
             /\ w.status = StatusUnauthorized
             /\ w.body = securityMsg
             /\ trace = << Ev("TerribleSecurityProvider", "pre", req),
                           Ev("TerribleSecurityProvider", "reject", req) >>
             /\ ipc = -1
        ELSE /\ trace[1] = Ev("TerribleSecurityProvider", "pre", req)
             /\ trace[2] = Ev(EntryWho(root.h), EntryEv(root.h), req)
             /\ HasTimeout(root) =>
                    /\ CountEv(trace, "timeoutHandler", "pre") = 1
                    /\ CountEv(trace, "TerribleSecurityProvider", "reject") = 0
                    /\ ipc # -1
             /\ ~ HasTimeout(root) =>
                    LET alone == finishRequest(ServeHTTP(root.h, req, Fresh))
                    IN  /\ w = alone.w
                        /\ log = alone.log
                        /\ Tail(trace) = alone.trace

C1_Witness ==
    /\ root = TerribleSecurityProvider("PASSWORD",
                  HandlerFunc("h", << OpWriteHeader(StatusAccepted), OpWrite("hi\n") >>))
    /\ req.secret = "guess"
    /\ phase = "finished"
    /\ w.status = StatusUnauthorized
    /\ w.body = securityMsg

\* C2: RequestTimer(h) writes exactly one log record for every request it handles,
\* also when h does not return normally.
C2_OneRecordPerRequest ==
    (root.kind = "RequestTimer" /\ root.h.kind = "HandlerFunc" /\ Over) =>
        TimerRecords = 1

RECURSIVE ChainKinds(_)
ChainKinds(h) ==
    IF h.kind \in Wrappers THEN << h.kind >> \o ChainKinds(h.h) ELSE << >>

RECURSIVE Base(_)
Base(h) == IF h.kind \in Wrappers THEN Base(h.h) ELSE h

RECURSIVE ChainPasswords(_)
ChainPasswords(h) ==
    IF h.kind \in Wrappers
    THEN << IF h.kind = "TerribleSecurityProvider" THEN h.password ELSE "" >>
         \o ChainPasswords(h.h)
    ELSE << >>

Panics(ops) == \E i \in DOMAIN ops : ops[i].op = "panic"

RECURSIVE PreEvents(_, _, _, _)
PreEvents(kinds, i, last, r) ==       \* the pre-phases of elements i..last, outermost first
    IF i > last THEN << >>
    ELSE << Ev(kinds[i], "pre", r) >> \o PreEvents(kinds, i + 1, last, r)

RECURSIVE PostEvents(_, _, _)
PostEvents(kinds, i, r) ==            \* the post-phases of elements i..1, innermost first
    IF i < 1 THEN << >>
    ELSE (IF kinds[i] = "RequestTimer" THEN << Ev(kinds[i], "post", r) >> ELSE << >>)
         \o PostEvents(kinds, i - 1, r)

\* the events of the chain kinds[1](kinds[2](...(b))) on r, read off the list
ExpectedTrace(kinds, pws, b, r) ==
    LET n       == Len(kinds)
        Rejects == { i \in 1..n : kinds[i] = "TerribleSecurityProvider" /\ pws[i] # r.secret }
        stop    == IF Rejects = {} THEN n + 1
                   ELSE CHOOSE i \in Rejects : \A j \in Rejects : i <= j
    IN  IF stop <= n
        THEN PreEvents(kinds, 1, stop, r)
             \o << Ev("TerribleSecurityProvider", "reject", r) >>
             \o PostEvents(kinds, stop - 1, r)
        ELSE PreEvents(kinds, 1, n, r)
             \o << Ev(b.name, "call", r) >>
             \o (IF Panics(b.ops) THEN << >>
                 ELSE << Ev(b.name, "return", r) >> \o PostEvents(kinds, n, r))

Positions(who, ev) == { i \in DOMAIN trace : trace[i].who = who /\ trace[i].ev = ev }

Before(a, b) == \A i \in a, j \in b : i < j

C4_TimerAroundRejection ==
    (root.kind = "RequestTimer" /\ root.h.kind = "TerribleSecurityProvider"
        /\ Over /\ req.secret # root.h.password) =>
        /\ phase = "finished"
        /\ trace = << Ev("RequestTimer", "pre", req),
                      Ev("TerribleSecurityProvider", "pre", req),
                      Ev("TerribleSecurityProvider", "reject", req),
                      Ev("RequestTimer", "post", req) >>
        /\ TimerRecords = 1
        /\ w.status = StatusUnauthorized
        /\ w.body = securityMsg

C4_Witness ==
    /\ root = RequestTimer(TerribleSecurityProvider("PASSWORD",
                  HandlerFunc("h", << OpWrite("hi\n") >>)))
    /\ req.secret = ""
    /\ phase = "finished"
    /\ TimerRecords = 1
    /\ CountEv(trace, "h", "call") = 0

Line(body) == TrimSuffix(body, "\n")

\* C5: the router newServeMux builds answers /alive with 200 "ok!", /ready with
\* 200 "always" and an unregistered path such as /missing with 404 (bodies
\* compared up to the line's terminating newline).
C5_AliveReadyMissing ==
    (root = newServeMux /\ phase = "finished" /\ req.method = "GET") =>
        /\ req.path = "/alive" => (w.status = StatusOK /\ Line(w.body) = "ok!")
        /\ req.path = "/ready" => (w.status = StatusOK /\ Line(w.body) = "always")
        /\ req.path = "/missing" => w.status = StatusNotFound

Matches(pattern, key) ==
    pattern = key \/ (HasSuffix(pattern, "/") /\ HasPrefix(key, pattern))

\* the root router chose a pattern and delegated (no redirect)
Dispatched ==
    /\ root \in Routers
    /\ phase = "finished"
    /\ trace[1].who = "ServeMux"
    /\ trace[2].who # "Redirect"

HostKey == IF req.method = "CONNECT" THEN req.host ELSE stripHostPort(req.host)

\* the path the handler behind the registration's StripPrefix was given
DelegateSees == IF trace[2].who = "StripPrefix" THEN trace[3].path ELSE trace[2].path

\* C6 as the specification states it: the longest matching prefix is selected and
\* the delegated handler sees the path with the matched prefix stripped.
C6_MatchedPrefixStripped ==
    (Dispatched /\ HasSuffix(trace[1].ev, "/")) =>
        /\ \A q \in DOMAIN root.m : Matches(q, req.path) => Len(q) <= Len(trace[1].ev)
        /\ DelegateSees = TrimPrefix(req.path, trace[1].ev)

\* C6, amended: the router selects the longest registered pattern that matches the
\* request (the whole path, or a pattern ending in "/" that is a prefix of it) and
\* hands the request on with its path unchanged; a handler registered through
\* StripPrefix(p, h) gives h the path with p removed, p being what the registration
\* chose and not the matched pattern.  With /user/ and /user/admin/ registered,
\* /user/admin/profile goes to the /user/admin/ handler, never to the /user/ one,
\* and behind StripPrefix("/user/admin", .) that handler sees /profile.
C6_LongestPatternAndStripPrefix ==
    /\ Dispatched =>
          LET P   == trace[1].ev
              key == IF P # "" /\ CharAt(P, 1) # "/" THEN HostKey \o req.path ELSE req.path
          IN  /\ trace[2].path = req.path
              /\ P # "" =>
                    /\ P \in DOMAIN root.m
                    /\ Matches(P, key)
                    /\ \A q \in DOMAIN root.m : Matches(q, key) => Len(q) <= Len(P)
              /\ P = "" =>
                    \A q \in DOMAIN root.m :
                        ~ Matches(q, req.path) /\ ~ Matches(q, HostKey \o req.path)
              /\ (P # "" /\ trace[2].who = "StripPrefix" /\ trace[3].who # "NotFound") =>
                    trace[3].path = TrimPrefix(req.path, root.m[P].prefix)
    /\ (root = nestedPrefixMux /\ phase = "finished" /\ req.path = "/user/admin/profile") =>
          /\ trace[1].ev = "/user/admin/"
          /\ CountEv(trace, "/user/", "call") = 0
          /\ \E i \in DOMAIN trace :
                 trace[i] = [who |-> "/user/admin/", ev |-> "call", path |-> "/profile"]

C6_Witness ==
    /\ root = nestedPrefixMux
    /\ phase = "finished"
    /\ req.path = "/user/admin/profile"
    /\ trace[1].ev = "/user/admin/"
    /\ trace[3] = [who |-> "/user/admin/", ev |-> "call", path |-> "/profile"]
    /\ w.body = "admin"

RECURSIVE Output(_, _)
Output(ops, i) ==          \* the bytes a handler body writes, in order
    IF i > Len(ops) THEN ""
    ELSE (IF ops[i].op = "Write" THEN ops[i].data ELSE "") \o Output(ops, i + 1)

\* C8 as the specification states it: when the inner handler had started writing
\* before the deadline fired, the timeout middleware does not write a timeout
\* response.
C8_FirstWriterWins ==
    (HasTimeout(root) /\ phase = "finished" /\ atDeadline.fired
        /\ atDeadline.innerWrote) =>
        /\ branch = "done"
        /\ w.body = tw.wbuf

\* C8, amended: the inner handler writes into a buffer; TimeoutHandler delivers
\* it, whole, only if its select takes the handler's completion, and otherwise
\* writes the timeout response, even when the inner handler had started writing
\* before the deadline fired (the buffer is then dropped).  Whenever the
\* middleware returns, exactly one of the two has reached the client: the inner
\* handler's complete response or the timeout response, never both, never a mix.
C8_ExactlyOneResponse ==
    /\ branch = "panic" => phase = "aborted"
    /\ (HasTimeout(root) /\ phase = "finished" /\ ipc # -1) =>
          \/ /\ branch = "done"
             /\ ipc = Returned /\ done
             /\ tw.err = ""
             /\ tw.wbuf = Output(InnerOps, 1)
             /\ w.status = (IF tw.wroteHeader THEN tw.code ELSE StatusOK)
             /\ w.body = tw.wbuf
          \/ /\ branch = "timeout"
             /\ w.status = StatusServiceUnavailable
             /\ w.body \in {TimeoutNode(root).body, ""}
             /\ w.header = {}

C8_Witness ==
    /\ HasTimeout(root)
    /\ phase = "finished"
    /\ atDeadline.fired /\ atDeadline.innerWrote
    /\ branch = "timeout"
    /\ tw.wbuf = "hi\n"
    /\ w.body = "timed out"

StatusOps == {"WriteHeader", "Write"}

\* the index of the first operation that fixes the status, 0 if there is none
FirstStatusOp(ops) ==
    IF \E i \in DOMAIN ops : ops[i].op \in StatusOps
    THEN CHOOSE i \in DOMAIN ops :
             /\ ops[i].op \in StatusOps
             /\ \A j \in 1..(i - 1) : ops[j].op \notin StatusOps
    ELSE 0

FirstStatus(ops) ==
    LET i == FirstStatusOp(ops)
    IN  IF i # 0 /\ ops[i].op = "WriteHeader" THEN ops[i].code ELSE StatusOK

HeadersBeforeStatus(ops) ==
    LET i == FirstStatusOp(ops)
        n == IF i = 0 THEN Len(ops) ELSE i - 1
    IN  { << ops[j].data, "1" >> : j \in { k \in 1..n : ops[k].op = "Header.Set" } }

WritesBodyFirst(ops) ==
    FirstStatusOp(ops) # 0 /\ ops[FirstStatusOp(ops)].op = "Write"

WriteOnlyHandlers == {"alive", "ready", "hello", "user", "record", "helloWorldHandler"}

\* C10: a handler that writes body bytes without first setting a status (as the
\* /alive, /ready and hello handlers do) gives its response the status 200, and a
\* WriteHeader later in the same request does not change it.
C10_ImplicitOK ==
    /\ (root.kind = "HandlerFunc" /\ phase = "finished" /\ WritesBodyFirst(root.ops)) =>
          w.status = StatusOK
    /\ (root \in Routers /\ phase = "finished"
          /\ \E i \in DOMAIN trace :
                 trace[i].who \in WriteOnlyHandlers /\ trace[i].ev = "call") =>
          w.status = StatusOK
    /\ (HasTimeout(root) /\ WritesBodyFirst(InnerOps) /\ tw.wroteHeader) =>
          tw.code = StatusOK
    /\ (HasTimeout(root) /\ WritesBodyFirst(InnerOps) /\ branch = "done") =>
          w.status = StatusOK

C10_Witness ==
    /\ root = HandlerFunc("h", << OpWrite("hi\n"), OpWriteHeader(500) >>)
    /\ phase = "finished"
    /\ w.status = StatusOK
    /\ w.body = "hi\n"
    /\ log = << "http: superfluous response.WriteHeader call" >>

\* C15: in the router parentChildMux builds, /user/fetch reaches the user
\* sub-router's /fetch handler (body "This is a user!") and /record/fetch reaches
\* the record sub-router's /fetch handler (body "This is a record!"), each
\* sub-router seeing the path without the parent's prefix.
C15_NestedRouters ==
    (root = parentChildMux /\ phase = "finished") =>
        /\ req.path = "/user/fetch" =>
               /\ w.body = "This is a user!"
               /\ CountEv(trace, "user", "call") = 1
               /\ \A i \in DOMAIN trace : trace[i].who = "user" => trace[i].path = "/fetch"
        /\ req.path = "/record/fetch" =>
               /\ w.body = "This is a record!"
               /\ CountEv(trace, "record", "call") = 1
               /\ \A i \in DOMAIN trace : trace[i].who = "record" => trace[i].path = "/fetch"

\* C16: in muxWithMiddleware's chain a request for /hello that fails the password
\* check ends at the authorization middleware (RequestTimer and the hello handler
\* do not run, no timing record is written); a request that passes runs
\* RequestTimer and the hello handler once each and gets the body "Hello, world!\n".
C16_HelloChain ==
    (root = muxWithMiddleware /\ Over /\ req.path = "/hello") =>
        IF req.secret = "PASSWORD"
        THEN /\ CountEv(trace, "RequestTimer", "pre") = 1
             /\ CountEv(trace, "RequestTimer", "post") = 1
             /\ CountEv(trace, "hello", "call") = 1
             /\ CountEv(trace, "hello", "return") = 1
             /\ TimerRecords = 1
             /\ w.body = "Hello, world!\n"
        ELSE /\ \A i \in DOMAIN trace : trace[i].who \notin {"RequestTimer", "hello"}
             /\ trace[Len(trace)] =
                    [who |-> "TerribleSecurityProvider", ev |-> "reject", path |-> "/hello"]
             /\ TimerRecords = 0
             /\ w.status = StatusUnauthorized
             /\ w.body = securityMsg

C16_Witness ==
    /\ root = muxWithMiddleware
    /\ phase = "finished"
    /\ req.path = "/hello"
    /\ req.secret = "guess"
    /\ w.status = StatusUnauthorized
    /\ log = << >>

\* C17: RequestTimer is transparent to the response: whatever the request and
\* whatever handler h that returns normally, the status, headers and body that
\* reach the client through RequestTimer(h) are those h alone produces, and h is
\* invoked exactly once (its events occur once, between RequestTimer's two).
C17_RequestTimerTransparent ==
    (root.kind = "RequestTimer" /\ Over /\ ~ ServeHTTP(root.h, req, Fresh).panicked) =>
        LET alone == ServeHTTP(root.h, req, Fresh)
        IN  /\ phase = "finished"
            /\ w = finishRequest(alone).w
            /\ trace = << Ev("RequestTimer", "pre", req) >> \o alone.trace
                           \o << Ev("RequestTimer", "post", req) >>

C17_Witness ==
    /\ root = RequestTimer(HandlerFunc("h", << OpHeaderSet("X-Late"),
                                               OpWriteHeader(StatusAccepted),
                                               OpWrite("hi\n") >>))
    /\ phase = "finished"
    /\ w.status = StatusAccepted
    /\ w.body = "hi\n"
    /\ << "X-Late", "1" >> \in w.header
    /\ CountEv(trace, "h", "call") = 1

\* C14: whenever the serve loop returns because of a bind or accept failure, the
\* failure reaches the caller of the function that started the server (listen,
\* newServeMux, aliceWithMiddleWare): it is never dropped.
C14_ServeFailureReported ==
    outcome.returned => (serveErr # "" /\ outcome.panic = serveErr)

\* the fields of testJSON a reader of json.go takes marshal to recognize
OnlyName(ms) == \A i \in DOMAIN ms : ms[i].key = "name"

\* C11 as the specification states it: marshal returns nil and sets Name to the
\* input's "name" value when the JSON object contains only recognized fields, and
\* returns a non-nil error whenever the object contains a field other than "name".
C11_NameOnly ==
    \A i \in DOMAIN marshalLog :
        LET c  == marshalLog[i]
            ms == c.in.members
        IN  c.in.object =>
                /\ OnlyName(ms) =>
                       /\ c.err = ""
                       /\ ms # << >> => c.now.Name = ms[Len(ms)].val.s
                /\ ~ OnlyName(ms) => c.err # ""

Recognized(m) == equalFold("name", m.key)

RECURSIVE LastString(_, _, _)
LastString(ms, i, name) ==     \* the string value of the last recognized member
    IF i > Len(ms) THEN name
    ELSE LastString(ms, i + 1,
             IF Recognized(ms[i]) /\ ms[i].val.kind = "string" THEN ms[i].val.s ELSE name)

\* C11, amended: marshal returns nil when the input is a JSON object whose field
\* names all equal "name" up to letter case and whose values are strings or null,
\* and then Name holds the last string value among them (it is left as it was if
\* there is none); it returns a non-nil error whenever the object has a field
\* whose name differs from "name" by more than letter case, or a "name" value
\* that is neither a string nor null.
C11_StrictDecoding ==
    \A i \in DOMAIN marshalLog :
        LET c  == marshalLog[i]
            ms == c.in.members
            ok == \A j \in DOMAIN ms :
                      Recognized(ms[j]) /\ ms[j].val.kind \in { "string", "null" }
        IN  c.in.object =>
                /\ ok => (c.err = "" /\ c.now.Name = LastString(ms, 1, c.was.Name))
                /\ ~ ok => c.err # ""
                /\ c.now.Name = LastString(ms, 1, c.was.Name)
                /\ tj = marshalLog[Len(marshalLog)].now

\* TestMarshal: the good text is decoded, then the bad one is refused
C11_Witness ==
    /\ Len(marshalLog) = 2
    /\ marshalLog[1].in.b = goodJSONString
    /\ marshalLog[1].err = ""
    /\ marshalLog[1].now.Name = "michael"
    /\ marshalLog[2].in.b = badJSONString
    /\ marshalLog[2].err = UnknownField("address")
    /\ log = << "no error", "got an err  json: unknown field \"address\"" >>

\* the reader returns a non-nil error at some Read
Errs(rdr) == \E i \in DOMAIN rdr.script : rdr.script[i].err # ""

FirstErr(rdr) ==
    CHOOSE i \in DOMAIN rdr.script :
        rdr.script[i].err # "" /\ \A k \in 1..(i - 1) : rdr.script[k].err = ""

\* C19: countLetter returns after finitely many Read calls if and only if the
\* reader eventually returns a non-nil error: it has returned only when the
\* reader erred, and then at the first such Read; it is never still looping
\* once that Read was made; every step of the loop is one more Read.  For a
\* reader that always returns (0, nil), as ourReader, it never returns.
C19_ReturnsIffReaderErrs ==
    /\ [](cl.pc = "returned" => (Errs(reader) /\ cl.reads = FirstErr(reader)))
    /\ []((cl.pc = "loop" /\ Errs(reader)) => cl.reads < FirstErr(reader))
    /\ [][cl.pc = "loop" /\ cl'.reads = cl.reads + 1]_vars

C19_Witness ==
    /\ Len(reader.script) = 2
    /\ reader.script[1].err = ""
    /\ reader.script[2].err = ErrUnexpectedEOF
    /\ cl.pc = "returned"
    /\ cl.reads = 2

Letters == { CharAt(Lower, i) : i \in 1..Len(Lower) } \cup { CharAt(Upper, i) : i \in 1..Len(Upper) }

\* all bytes the reader delivers in its first k Reads
RECURSIVE Delivered(_, _)
Delivered(rdr, k) == IF k = 0 THEN "" ELSE Delivered(rdr, k - 1) \o rdr.script[k].data

Get(m, key) == IF key \in DOMAIN m THEN m[key] ELSE 0

\* C20: for a reader that ends with io.EOF, countLetter returns a map giving each
\* ASCII letter (case-sensitive) the number of times it occurs in all the bytes the
\* reader delivered, those of the Read that returned io.EOF included, with no key
\* for a non-letter byte; for a reader that returns another error it returns a
\* nil map and that error.
C20_LetterCounts ==
    cl.pc = "returned" =>
        LET k   == FirstErr(reader)
            all == Delivered(reader, k)
        IN  /\ Errs(reader)
            /\ IF reader.script[k].err = EOF
               THEN /\ ~ cl.ret.nilMap
                    /\ cl.ret.err = ""
                    /\ \A c \in Letters : Get(cl.ret.out, c) = Count(all, c, 1)
                    /\ DOMAIN cl.ret.out \subseteq Letters
               ELSE /\ cl.ret.nilMap
                    /\ cl.ret.err = reader.script[k].err

C20_Witness ==
    /\ reader.script = << [data |-> "aZ", err |-> ""], [data |-> "a", err |-> EOF] >>
    /\ cl.pc = "returned"
    /\ cl.buf = "aZ"
    /\ ~ cl.ret.nilMap
    /\ DOMAIN cl.ret.out = { "a", "Z" }
    /\ cl.ret.out["a"] = 2
    /\ cl.ret.out["Z"] = 1

\* the contexts from c up to the root, c first
RECURSIVE PathToRoot(_, _)
PathToRoot(cs, c) == IF c = 0 THEN << >> ELSE << c >> \o PathToRoot(cs, cs[c].parent)

OnPath(cs, c) == { PathToRoot(cs, c)[i] : i \in DOMAIN PathToRoot(cs, c) }

\* C12: cancelling a context signals Done() on every context derived from it, at
\* any depth, children derived after the cancellation included (they start
\* cancelled), and cancelling a child never marks its parent or its siblings: a
\* context is cancelled exactly when it, or a context it derives from, has been
\* cancelled (by its CancelFunc or its timer).  The context a middleware hands its
\* inner handler observes the cancellation of the incoming request's context.
C12_CancellationPropagates ==
    /\ \A c \in DOMAIN ctxs :
           Done(ctxs, c) <=> \E a \in OnPath(ctxs, c) : ctxs[a].direct # ""
    /\ \A i \in DOMAIN handoff :
           /\ handoff[i].st.calls # << >>
           /\ \A k \in DOMAIN handoff[i].st.calls :
                  Done(ctxs, Context(handoff[i].req)) =>
                      Done(ctxs, handoff[i].st.calls[k].ctx)

\* a grandchild, derived after its grandparent was cancelled, is Done, while the
\* root is not
C12_Witness ==
    /\ Len(ctxs) = 4
    /\ ctxs[2].kind = "cancelCtx" /\ ctxs[2].parent = 1 /\ ctxs[2].direct = "cancel"
    /\ ctxs[3].kind = "valueCtx" /\ ctxs[3].parent = 2
    /\ ctxs[4].kind = "timerCtx" /\ ctxs[4].parent = 3 /\ ctxs[4].direct = ""
    /\ Done(ctxs, 4)
    /\ ~ Done(ctxs, 1)
    /\ Len(handoff) = 1
    /\ handoff[1].mw = "timeoutHandler"
    /\ handoff[1].req.ctx = 3
    /\ handoff[1].st.calls[1].ctx = 4

\* the value the nearest binding of key on the path p[i..] gives
RECURSIVE NearestBinding(_, _, _, _)
NearestBinding(cs, p, i, key) ==
    IF i > Len(p) THEN Absent
    ELSE IF cs[p[i]].kind = "valueCtx" /\ cs[p[i]].key = key THEN cs[p[i]].val
    ELSE NearestBinding(cs, p, i + 1, key)

\* C13: whatever the sequence of WithValue derivations from Background(), a lookup
\* of a key on a context gives the value bound by the nearest context on its path
\* to the root that binds the key, and absent if none does; deriving a child with
\* a new binding leaves every lookup on the parent (on any context there is)
\* unchanged.
C13_NearestBinding ==
    /\ [](\A c \in DOMAIN ctxs, key \in Keys \cup { "none" } :
             Value(ctxs, c, key) = NearestBinding(ctxs, PathToRoot(ctxs, c), 1, key))
    /\ [][\A c \in DOMAIN ctxs, key \in Keys \cup { "none" } :
             Value(ctxs', c, key) = Value(ctxs, c, key)]_vars

\* a binding shadowed by a nearer one of the same key, another key seen through it
C13_Witness ==
    /\ Len(ctxs) = 4
    /\ ctxs[2].kind = "valueCtx" /\ ctxs[2].key = "user" /\ ctxs[2].parent = 1
    /\ ctxs[3].kind = "valueCtx" /\ ctxs[3].key = "trace" /\ ctxs[3].parent = 2
    /\ ctxs[4].kind = "valueCtx" /\ ctxs[4].key = "user" /\ ctxs[4].parent = 3
    /\ Value(ctxs, 4, "user") = 4
    /\ Value(ctxs, 4, "trace") = 3
    /\ Value(ctxs, 3, "user") = 2
    /\ Value(ctxs, 1, "user") = Absent

\* C18: the context package's Middleware calls the wrapped handler exactly once
\* per request, with the response writer it was given and with a request whose
\* context is the incoming request's context (the same cancellation state and
\* the same value bindings, at the call and ever after), and writes nothing to
\* the response itself: the writer holds what the handler alone writes to it.
C18_MiddlewarePassesThrough ==
    \A i \in DOMAIN handoff :
        handoff[i].mw = "Middleware" =>
            LET h     == handoff[i]
                alone == RunOps(h.handler.ops, 1, Fresh)
            IN  /\ Len(h.st.calls) = 1
                /\ h.st.calls[1].rw = h.rw
                /\ h.st.calls[1].ctx = Context(h.req)
                /\ Err(ctxs, h.st.calls[1].ctx) = Err(ctxs, Context(h.req))
                /\ \A key \in Keys :
                       Value(ctxs, h.st.calls[1].ctx, key) = Value(ctxs, Context(h.req), key)
                /\ h.st.writers = [NewWriters EXCEPT ![h.rw] = alone.w]

C18_Witness ==
    /\ Len(handoff) = 1
    /\ handoff[1].mw = "Middleware"
    /\ handoff[1].rw = 2
    /\ handoff[1].req.ctx = 3
    /\ ctxs[3].kind = "valueCtx" /\ ctxs[3].parent = 2
    /\ ctxs[2].kind = "cancelCtx" /\ ctxs[2].direct = "cancel"
    /\ handoff[1].st.calls = << [rw |-> 2, ctx |-> 3] >>
    /\ Done(ctxs, 3)
    /\ Value(ctxs, 3, ctxs[3].key) = 3
    /\ handoff[1].st.writers[2].body = "hello, world!"
    /\ handoff[1].st.writers[1] = NewResponse

=============================================================================
